---- MODULE Spec2Model ----
(***************************************************************************)
(* AidGen relay: a request handler that turns a JSON description of a      *)
(* coffee into a chat prompt, calls the OpenAI chat-completion endpoint    *)
(* once and translates the reply.  Three entry points exist: the Worker's  *)
(* fetch (src/worker/index.js) and the Pages functions onRequest (which    *)
(* delegates to handlePost) and onRequestPost (src/unnamed/part_000).      *)
(*                                                                         *)
(* Texts are sequences of string fragments; the whitespace characters at   *)
(* the ends of a value are fragments of their own, so that trim() can be   *)
(* computed.  JavaScript values are records [t |-> type, v |-> payload].   *)
(***************************************************************************)
EXTENDS Integers, Sequences, FiniteSets

VARIABLES req, pc, parsedIn, lines, calls, upstream, parsedUp, resp

vars == <<req, pc, parsedIn, lines, calls, upstream, parsedUp, resp>>

(***************************************************************************)
(* Bounds of the model.                                                    *)
(***************************************************************************)
\* The number of key/value pairs of an inbound JSON object (SpecPrompt).
MaxFields == 2
\* The number of requests handled concurrently (SpecPairs).
NumRequests == 2

(***************************************************************************)
(* JavaScript values, as JSON.parse produces them.                         *)
(***************************************************************************)
Undefined == [t |-> "undefined", v |-> <<>>]
Null == [t |-> "null", v |-> <<>>]
Bool(b) == [t |-> "boolean", v |-> b]
Num(n) == [t |-> "number", v |-> n]
Str(s) == [t |-> "string", v |-> s]
Arr(es) == [t |-> "array", v |-> es]
\* An object is the sequence of its <<name, value>> pairs, in insertion order.
Obj(ps) == [t |-> "object", v |-> ps]

Nullish(x) == x.t \in {"undefined", "null"}

\* x[name] for a property name that is no array index and no built-in.
Get(x, name) ==
  IF x.t = "object"
    THEN LET at == {k \in 1..Len(x.v) : x.v[k][1] = name}
         IN  IF at = {} THEN Undefined
             ELSE x.v[CHOOSE k \in at : \A m \in at : m <= k][2]
    ELSE Undefined

HasOwn(x, name) == x.t = "object" /\ \E k \in 1..Len(x.v) : x.v[k][1] = name

\* x[0]
Index0(x) ==
  CASE x.t = "array" -> IF Len(x.v) > 0 THEN x.v[1] ELSE Undefined
    [] x.t = "string" -> IF Len(x.v) > 0 THEN Str(<<x.v[1]>>) ELSE Undefined
    [] OTHER -> Get(x, "0")

\* x?.name and x?.[0]
OptGet(x, name) == IF Nullish(x) THEN Undefined ELSE Get(x, name)
OptIndex0(x) == IF Nullish(x) THEN Undefined ELSE Index0(x)

\* ToBoolean
Truthy(x) ==
  CASE x.t \in {"undefined", "null"} -> FALSE
    [] x.t = "boolean" -> x.v
    [] x.t = "number" -> x.v # 0
    [] x.t = "string" -> x.v # <<>>
    [] OTHER -> TRUE

WhiteSpace == {" ", "\t", "\n"}

RECURSIVE TrimStart(_)
TrimStart(s) ==
  IF s # <<>> /\ Head(s) \in WhiteSpace THEN TrimStart(Tail(s)) ELSE s

RECURSIVE TrimEnd(_)
TrimEnd(s) ==
  IF s # <<>> /\ s[Len(s)] \in WhiteSpace
    THEN TrimEnd(SubSeq(s, 1, Len(s) - 1)) ELSE s

\* String.prototype.trim
Trim(s) == TrimEnd(TrimStart(s))

DigitChars == <<"0", "1", "2", "3", "4", "5", "6", "7", "8", "9">>

\* Number.prototype.toString of a natural number
RECURSIVE Digits(_)
Digits(n) ==
  IF n < 10 THEN <<DigitChars[n + 1]>>
  ELSE Digits(n \div 10) \o <<DigitChars[(n % 10) + 1]>>

\* Array.prototype.join over texts
RECURSIVE JoinWith(_, _)
JoinWith(ts, sep) ==
  IF ts = <<>> THEN <<>>
  ELSE IF Len(ts) = 1 THEN ts[1]
  ELSE ts[1] \o <<sep>> \o JoinWith(Tail(ts), sep)

\* Whether x.toString() (and `${x}`) raises a TypeError: on null and
\* undefined, on an object whose own "toString" property is not callable (no
\* JSON value is), and on an array holding such an object.
RECURSIVE ToStringThrows(_)
ToStringThrows(x) ==
  CASE Nullish(x) -> TRUE
    [] x.t = "object" -> HasOwn(x, "toString")
    [] x.t = "array" ->
         \E k \in 1..Len(x.v) : ~Nullish(x.v[k]) /\ ToStringThrows(x.v[k])
    [] OTHER -> FALSE

\* x.toString() where it does not throw
RECURSIVE ToString(_)
ToString(x) ==
  CASE x.t = "string" -> x.v
    [] x.t = "number" -> Digits(x.v)
    [] x.t = "boolean" -> IF x.v THEN <<"true">> ELSE <<"false">>
    [] x.t = "array" ->
         JoinWith([k \in 1..Len(x.v) |->
                     IF Nullish(x.v[k]) THEN <<>> ELSE ToString(x.v[k])], ",")
    [] OTHER -> <<"[object Object]">>

(***************************************************************************)
(* Prompt construction.  The loop is the same text in the three handlers;  *)
(* each handler has its own mapping table.                                 *)
(***************************************************************************)
WorkerMapping ==
  << <<"name", "Name">>, <<"roast", "Roast profile">>, <<"origin", "Origin">>,
     <<"process", "Processing method">>, <<"varietal", "Varietal">>,
     <<"masl", "MASL">>, <<"roastDate", "Roast date">>,
     <<"brewProfile", "Brew profile">> >>

HandlePostMapping ==
  << <<"name", "Name">>, <<"roast", "Roast profile">>, <<"origin", "Origin">>,
     <<"process", "Processing method">>, <<"varietal", "Varietal">>,
     <<"masl", "MASL">>, <<"roastDate", "Roast date">>,
     <<"brewProfile", "Brew profile">> >>

OnRequestPostMapping ==
  << <<"name", "Name">>, <<"roast", "Roast profile">>, <<"origin", "Origin">>,
     <<"process", "Processing method">>, <<"varietal", "Varietal">>,
     <<"masl", "MASL">>, <<"roastDate", "Roast date">>,
     <<"brewProfile", "Brew profile">> >>

\* The outcome of a synchronous stretch of code: an exception with its
\* message, or a value.
Threw(message) == [threw |-> TRUE, message |-> message, value |-> <<>>]
Returned(value) == [threw |-> FALSE, message |-> <<>>, value |-> value]

\* for (const key of Object.keys(mapping))
\*   if (body[key] && body[key].toString().trim() !== '')
\*     lines.push(`${mapping[key]}: ${body[key]}`);
\* from the k-th key on, with the lines pushed so far.
RECURSIVE LinesLoop(_, _, _, _)
LinesLoop(mapping, body, k, acc) ==
  IF k > Len(mapping) THEN Returned(acc)
  ELSE LET key == mapping[k][1]
           label == mapping[k][2]
       IN  IF Nullish(body)
             THEN Threw(<<"Cannot read properties of null (reading '", key, "')">>)
           ELSE IF ~Truthy(Get(body, key))
             THEN LinesLoop(mapping, body, k + 1, acc)
           ELSE IF ToStringThrows(Get(body, key))
             THEN Threw(<<"body[key].toString is not a function">>)
           ELSE IF Trim(ToString(Get(body, key))) # <<>>
             THEN LinesLoop(mapping, body, k + 1,
                            Append(acc, <<label, ": ">> \o ToString(Get(body, key))))
           ELSE LinesLoop(mapping, body, k + 1, acc)

\* The mapping table walked in the order of the keys of the inbound object.
InBodyOrder(mapping, body) ==
  IF body.t # "object" THEN mapping
  ELSE LET known == {mapping[m][1] : m \in 1..Len(mapping)}
           ofKey(key) == CHOOSE m \in 1..Len(mapping) : mapping[m][1] = key
           hits == SelectSeq(body.v, LAMBDA p : p[1] \in known)
       IN  [k \in 1..Len(hits) |-> mapping[ofKey(hits[k][1])]]

WorkerLinesBodyOrder(body) ==
  LinesLoop(InBodyOrder(WorkerMapping, body), body, 1, <<>>)

WorkerLines(body) == LinesLoop(WorkerMapping, body, 1, <<>>)
HandlePostLines(body) == LinesLoop(HandlePostMapping, body, 1, <<>>)
OnRequestPostLines(body) == LinesLoop(OnRequestPostMapping, body, 1, <<>>)

\* lines.join('\n')
UserMessage(ls) == JoinWith(ls, "\n")

(***************************************************************************)
(* The outbound request.                                                   *)
(***************************************************************************)
WorkerSystemPrompt ==
  << "You are AidGen, a recipe generator for the Fellow Aiden coffee machine.\n",
     "Your task is to generate precise coffee brewing recipes based on user inputs.\n\n",
     "The user will provide some or all of the following fields: Name, Roast profile, Origin, Processing method, Varietal, MASL, Roast date, Brew profile.\n",
     "If any fields are blank, ignore them.\n\n",
     "Output as an HTML block containing ONLY tables. Each table must be dark mode styled and readable when injected directly into the page.\n\n",
     "Tables Required:\n",
     "1. Aiden Recipe Table (Temperature, Coffee-to-Water Ratio, Bloom Ratio, Bloom Time, Bloom Temperature).\n",
     "2. Single Serve Recipe Table (Pulse #, Pulse Temp, Time Until Next Pulse).\n",
     "3. Batch Recipe Table (Pulse #, Pulse Temp, Time Until Next Pulse).\n\n",
     "Rules:\n",
     "- All values must fall within specified ranges.\n",
     "- Be precise & realistic for the Fellow Aiden brewer.\n",
     "- Do not output text outside of tables." >>

HandlePostSystemPrompt ==
  << "You are AidGen, a recipe generator for the Fellow Aiden coffee machine.\n",
     "Your task is to generate precise coffee brewing recipes based on user inputs.\n\n",
     "The user will provide some or all of the following fields: Name, Roast profile, Origin, Processing method, Varietal, MASL, Roast date, Brew profile.\n",
     "If any fields are blank, ignore them.\n\n",
     "Output as an HTML block containing ONLY tables. Each table must be dark mode styled and readable when injected directly into the page.\n\n",
     "Tables Required:\n",
     "1. Aiden Recipe Table (Temperature, Coffee-to-Water Ratio, Bloom Ratio, Bloom Time, Bloom Temperature).\n",
     "2. Single Serve Recipe Table (Pulse #, Pulse Temp, Time Until Next Pulse).\n",
     "3. Batch Recipe Table (Pulse #, Pulse Temp, Time Until Next Pulse).\n\n",
     "Rules:\n",
     "- All values must fall within specified ranges.\n",
     "- Be precise & realistic for the Fellow Aiden brewer.\n",
     "- Do not output text outside of tables." >>

OnRequestPostSystemPrompt ==
  << "You are AidGen, a recipe generator for the Fellow Aiden coffee machine.\n",
     "Your task is to generate precise coffee brewing recipes based on user inputs.\n\n",
     "The user will provide some or all of the following fields: Name, Roast profile, Origin, Processing method, Varietal, MASL, Roast date, Brew profile.\n",
     "If any fields are blank, ignore them.\n\n",
     "Output as an HTML block containing ONLY tables. Each table must be dark mode styled and readable when injected directly into the page.\n\n",
     "Tables Required:\n",
     "1. Aiden Recipe Table (Temperature, Coffee-to-Water Ratio, Bloom Ratio, Bloom Time, Bloom Temperature).\n",
     "2. Single Serve Recipe Table (Pulse #, Pulse Temp, Time Until Next Pulse).\n",
     "3. Batch Recipe Table (Pulse #, Pulse Temp, Time Until Next Pulse).\n\n",
     "Rules:\n",
     "- All values must fall within specified ranges.\n",
     "- Be precise & realistic for the Fellow Aiden brewer.\n",
     "- Do not output text outside of tables." >>

\* The payload; temperature 0.5 is kept as its decimal text.
WorkerPayload(userMessage) ==
  [model |-> "gpt-3.5-turbo",
   messages |-> << [role |-> "system", content |-> WorkerSystemPrompt],
                   [role |-> "user", content |-> userMessage] >>,
   temperature |-> "0.5",
   max_tokens |-> 800]

\* The stale comment of handlePost names GPT-5; this is the payload it would
\* describe.
HandlePostPayloadGpt5(userMessage) ==
  [model |-> "gpt-5",
   messages |-> << [role |-> "system", content |-> HandlePostSystemPrompt],
                   [role |-> "user", content |-> userMessage] >>,
   temperature |-> "0.5",
   max_tokens |-> 800]

HandlePostPayload(userMessage) ==
  [model |-> "gpt-3.5-turbo",
   messages |-> << [role |-> "system", content |-> HandlePostSystemPrompt],
                   [role |-> "user", content |-> userMessage] >>,
   temperature |-> "0.5",
   max_tokens |-> 800]

OnRequestPostPayload(userMessage) ==
  [model |-> "gpt-3.5-turbo",
   messages |-> << [role |-> "system", content |-> OnRequestPostSystemPrompt],
                   [role |-> "user", content |-> userMessage] >>,
   temperature |-> "0.5",
   max_tokens |-> 800]

\* fetch('https://api.openai.com/v1/chat/completions', {...}); the body is
\* the payload that JSON.stringify serialises, kept as the structure.
WorkerCall(apiKey, payload) ==
  [url |-> "https://api.openai.com/v1/chat/completions",
   method |-> "POST",
   contentType |-> "application/json",
   authorization |-> <<"Bearer ", apiKey>>,
   body |-> payload]

HandlePostCall(apiKey, payload) ==
  [url |-> "https://api.openai.com/v1/chat/completions",
   method |-> "POST",
   contentType |-> "application/json",
   authorization |-> <<"Bearer ", apiKey>>,
   body |-> payload]

OnRequestPostCall(apiKey, payload) ==
  [url |-> "https://api.openai.com/v1/chat/completions",
   method |-> "POST",
   contentType |-> "application/json",
   authorization |-> <<"Bearer ", apiKey>>,
   body |-> payload]

(***************************************************************************)
(* The responses.  A body is the sequence of <<name, value>> pairs that     *)
(* JSON.stringify writes.                                                  *)
(***************************************************************************)
JsonResponse(status, body) ==
  [status |-> status, contentType |-> "application/json", body |-> body]

Worker405 == JsonResponse(405, << <<"error", Str(<<"Method Not Allowed">>)>> >>)
OnRequest405 == JsonResponse(405, << <<"error", Str(<<"Method Not Allowed">>)>> >>)

Worker400(message) ==
  JsonResponse(400, << <<"error", Str(<<"Invalid request">>)>>,
                       <<"message", Str(message)>> >>)
HandlePost400(message) ==
  JsonResponse(400, << <<"error", Str(<<"Invalid request">>)>>,
                       <<"message", Str(message)>> >>)
OnRequestPost400(message) ==
  JsonResponse(400, << <<"error", Str(<<"Invalid request">>)>>,
                       <<"message", Str(message)>> >>)

Worker500(errorText) ==
  JsonResponse(500, << <<"error", Str(<<"OpenAI API error">>)>>,
                       <<"details", Str(errorText)>> >>)
HandlePost500(errorText) ==
  JsonResponse(500, << <<"error", Str(<<"OpenAI API error">>)>>,
                       <<"details", Str(errorText)>> >>)
OnRequestPost500(errorText) ==
  JsonResponse(500, << <<"error", Str(<<"OpenAI API error">>)>>,
                       <<"details", Str(errorText)>> >>)

Worker200(content) == JsonResponse(200, << <<"html", content>> >>)
HandlePost200(content) == JsonResponse(200, << <<"html", content>> >>)
OnRequestPost200(content) == JsonResponse(200, << <<"html", content>> >>)

\* result.choices?.[0]?.message?.content || ''
\* result.choices throws on a null result: only the later steps are optional.
ContentOrEmpty(result) ==
  IF Nullish(result)
    THEN Threw(<<"Cannot read properties of null (reading 'choices')">>)
  ELSE LET content == OptGet(OptGet(OptIndex0(Get(result, "choices")),
                                    "message"), "content")
       IN  Returned(IF Truthy(content) THEN content ELSE Str(<<>>))

WorkerContent(result) == ContentOrEmpty(result)
HandlePostContent(result) == ContentOrEmpty(result)
OnRequestPostContent(result) == ContentOrEmpty(result)

\* if (request.method !== 'POST') return 405
WorkerAllowsPut(method) == method \notin {"POST", "PUT"}
WorkerRejects(method) == method # "POST"
\* if (context.request.method === 'POST') return handlePost(context)
OnRequestDelegates(method) == method = "POST"

(***************************************************************************)
(* The handler of an entry point.                                          *)
(***************************************************************************)
Entries == {"fetch", "onRequest", "onRequestPost"}

\* Whether the entry point answers 405 without reading the body;
\* onRequestPost has no method check.
Rejects(entry, method) ==
  CASE entry = "fetch" -> WorkerRejects(method)
    [] entry = "onRequest" -> ~OnRequestDelegates(method)
    [] OTHER -> FALSE

Response405(entry) == IF entry = "fetch" THEN Worker405 ELSE OnRequest405

LinesOf(entry, body) ==
  CASE entry = "fetch" -> WorkerLines(body)
    [] entry = "onRequest" -> HandlePostLines(body)
    [] OTHER -> OnRequestPostLines(body)

CallOf(entry, apiKey, userMessage) ==
  CASE entry = "fetch" -> WorkerCall(apiKey, WorkerPayload(userMessage))
    [] entry = "onRequest" -> HandlePostCall(apiKey, HandlePostPayload(userMessage))
    [] OTHER -> OnRequestPostCall(apiKey, OnRequestPostPayload(userMessage))

Response400(entry, message) ==
  CASE entry = "fetch" -> Worker400(message)
    [] entry = "onRequest" -> HandlePost400(message)
    [] OTHER -> OnRequestPost400(message)

Response500(entry, errorText) ==
  CASE entry = "fetch" -> Worker500(errorText)
    [] entry = "onRequest" -> HandlePost500(errorText)
    [] OTHER -> OnRequestPost500(errorText)

Response200(entry, content) ==
  CASE entry = "fetch" -> Worker200(content)
    [] entry = "onRequest" -> HandlePost200(content)
    [] OTHER -> OnRequestPost200(content)

ContentOf(entry, result) ==
  CASE entry = "fetch" -> WorkerContent(result)
    [] entry = "onRequest" -> HandlePostContent(result)
    [] OTHER -> OnRequestPostContent(result)

(***************************************************************************)
(* Inputs: the inbound requests and the replies of the upstream.           *)
(***************************************************************************)
Methods == {"POST", "GET", "PUT"}
ApiKeys == {"sk-A", "sk-B"}

\* An inbound body: text that request.json() parses to json, or rejects.
JsonBody(x) == [valid |-> TRUE, json |-> x]
NotJson == [valid |-> FALSE, json |-> Undefined]

RecognizedKeys == {"name", "roast", "origin", "process", "varietal", "masl",
                   "roastDate", "brewProfile"}
BodyKeys == RecognizedKeys \cup {"notes"}

Unprintable == Obj(<< <<"toString", Num(1)>> >>)

AllValues ==
  {Null, Str(<<>>), Str(<<" ">>), Str(<<"Light">>), Str(<<" ", "Light", " ">>),
   Num(0), Num(1200), Bool(FALSE), Bool(TRUE), Arr(<<>>),
   Arr(<<Str(<<"a">>), Str(<<"b">>)>>), Obj(<<>>), Unprintable}

FewValues == {Null, Str(<<" ">>), Str(<<" ", "Light", " ">>), Num(0), Num(12),
              Unprintable}

\* The JSON objects of n pairs with distinct keys, in every order.
RECURSIVE ObjectsOf(_, _, _)
ObjectsOf(n, keys, values) ==
  IF n = 0 THEN {<<>>}
  ELSE {<< <<k, v>> >> \o rest :
          k \in keys, v \in values, rest \in ObjectsOf(n - 1, keys, values)}

DistinctKeys(ps) == \A a, b \in 1..Len(ps) : ps[a][1] = ps[b][1] => a = b

\* The keys of the objects enumerated in every order: the first two, one of
\* the middle and the last of the mapping, and a key the mapping lacks.
PromptKeys == {"name", "roast", "masl", "brewProfile", "notes"}

AllEight ==
  << <<"name", Str(<<"Geisha">>)>>, <<"roast", Str(<<"Light">>)>>,
     <<"origin", Str(<<"Panama">>)>>, <<"process", Str(<<"Washed">>)>>,
     <<"varietal", Str(<<" ">>)>>, <<"masl", Num(1200)>>,
     <<"roastDate", Str(<<"2024-01-05">>)>>, <<"brewProfile", Str(<<"Bright">>)>> >>

Reversed(ps) == [k \in 1..Len(ps) |-> ps[Len(ps) + 1 - k]]

\* Every object of at most MaxFields pairs over PromptKeys and FewValues, in
\* every key order; every one-pair object; one object with all eight keys, in
\* the mapping's order and reversed.
PromptBodies ==
  {JsonBody(Obj(ps)) :
     ps \in {q \in UNION {ObjectsOf(n, PromptKeys, FewValues) : n \in 0..MaxFields} :
               DistinctKeys(q)}}
  \cup {JsonBody(Obj(<< <<k, v>> >>)) : k \in BodyKeys, v \in AllValues}
  \cup {JsonBody(Obj(AllEight)), JsonBody(Obj(Reversed(AllEight)))}

CoreBodies ==
  {NotJson, JsonBody(Null), JsonBody(Num(5)), JsonBody(Arr(<<Str(<<"x">>)>>)),
   JsonBody(Obj(<<>>)),
   JsonBody(Obj(<< <<"name", Str(<<"El Salvador Bourbon">>)>>,
                   <<"roast", Str(<<"Light">>)>> >>)),
   JsonBody(Obj(<< <<"roast", Str(<<"Light">>)>>,
                   <<"name", Str(<<"El Salvador Bourbon">>)>> >>))}
  \cup {JsonBody(Obj(<< <<k, v>> >>)) : k \in {"name", "masl"}, v \in AllValues}

PairBodies ==
  {NotJson, JsonBody(Obj(<<>>)), JsonBody(Obj(<< <<"name", Str(<<"Light">>)>> >>))}

\* A GET request carries no body.
RequestsOver(entries, keys, bodies) ==
  {r \in [entry : entries, method : Methods, apiKey : keys, body : bodies] :
     r.method = "GET" => r.body = NotJson}

PairRequests ==
  {r \in RequestsOver(Entries, ApiKeys, PairBodies) :
     r.method = "PUT" => r.body = JsonBody(Obj(<< <<"name", Str(<<"Light">>)>> >>))}

\* A reply of the upstream: the exchange fails (fetch rejects), or a response
\* arrives with a status and a body text, which parses to json when valid.
NoReply == [kind |-> "none", status |-> 0, text |-> <<>>, valid |-> FALSE,
            json |-> Undefined]
Rejected == [kind |-> "reject", status |-> 0, text |-> <<>>, valid |-> FALSE,
             json |-> Undefined]
Reply(status, text, valid, json) ==
  [kind |-> "response", status |-> status, text |-> text, valid |-> valid,
   json |-> json]

\* Success decided by looking at the status class: only 5xx is a failure.
OkBelow500(reply) == reply.status < 500

\* Response.ok
Ok(reply) == reply.status \in 200..299

Choice(content) ==
  Obj(<< <<"choices",
           Arr(<<Obj(<< <<"message", Obj(<< <<"content", content>> >>)>> >>)>>)>> >>)

UpstreamReplies ==
  {Rejected,
   Reply(401, <<"{\"error\":{\"message\":\"Incorrect API key provided: ", "sk-A",
                "\"}}">>, TRUE,
         Obj(<< <<"error", Obj(<< <<"message",
                    Str(<<"Incorrect API key provided: ", "sk-A">>)>> >>)>> >>)),
   Reply(429, <<"rate limited">>, FALSE, Undefined),
   Reply(200, <<"<html>Bad gateway</html>">>, FALSE, Undefined),
   Reply(200, <<"null">>, TRUE, Null),
   Reply(200, <<"{}">>, TRUE, Obj(<<>>)),
   Reply(200, <<"{\"choices\":[{\"message\":{\"content\":\"<table></table>\"}}]}">>,
         TRUE, Choice(Str(<<"<table></table>">>))),
   Reply(201, <<"{\"choices\":[{\"message\":{\"content\":0}}]}">>, TRUE,
         Choice(Num(0)))}

\* The messages of the exceptions raised outside the handler's own code.
JsonSyntaxError == <<"Unexpected token in JSON">>
NetworkError == <<"Network connection lost">>

(***************************************************************************)
(* The state machine: one handler invocation per request, suspended at its *)
(* awaits (request.json(), fetch(), openaiRes.text(), openaiRes.json()).   *)
(***************************************************************************)
Reqs == DOMAIN req

InitOver(ids, requests) ==
  /\ req \in [ids -> requests]
  /\ pc = [i \in ids |-> "start"]
  /\ parsedIn = [i \in ids |-> FALSE]
  /\ lines = [i \in ids |-> <<>>]
  /\ calls = [i \in ids |-> <<>>]
  /\ upstream = [i \in ids |-> NoReply]
  /\ parsedUp = [i \in ids |-> FALSE]
  /\ resp = [i \in ids |-> <<>>]

\* The invocation returns a response.
Return(i, response) ==
  /\ resp' = [resp EXCEPT ![i] = Append(@, response)]
  /\ pc' = [pc EXCEPT ![i] = "done"]

\* Entry up to the first await: the method check, then request.json().
Enter(i) ==
  /\ pc[i] = "start"
  /\ IF Rejects(req[i].entry, req[i].method)
       THEN /\ Return(i, Response405(req[i].entry))
            /\ UNCHANGED parsedIn
       ELSE /\ parsedIn' = [parsedIn EXCEPT ![i] = TRUE]
            /\ pc' = [pc EXCEPT ![i] = "json"]
            /\ UNCHANGED resp
  /\ UNCHANGED <<req, lines, calls, upstream, parsedUp>>

\* As AfterJson, with `lines` declared at module level: the array is shared
\* by the invocations and keeps what earlier ones pushed.
AfterJsonShared(i) ==
  /\ pc[i] = "json"
  /\ LET built == LinesOf(req[i].entry, req[i].body.json)
         RECURSIVE Earlier(_)
         Earlier(k) == IF k = 0 THEN <<>>
                       ELSE Earlier(k - 1) \o (IF k \in Reqs THEN lines[k] ELSE <<>>)
         shared == Earlier(NumRequests) \o built.value
     IN  IF ~req[i].body.valid
           THEN /\ Return(i, Response400(req[i].entry, JsonSyntaxError))
                /\ UNCHANGED <<lines, calls>>
         ELSE IF built.threw
           THEN /\ Return(i, Response400(req[i].entry, built.message))
                /\ UNCHANGED <<lines, calls>>
         ELSE /\ lines' = [lines EXCEPT ![i] = shared]
              /\ calls' = [calls EXCEPT ![i] =
                             Append(@, CallOf(req[i].entry, req[i].apiKey,
                                              UserMessage(shared)))]
              /\ pc' = [pc EXCEPT ![i] = "fetch"]
              /\ UNCHANGED resp
  /\ UNCHANGED <<req, parsedIn, upstream, parsedUp>>

\* request.json() settles: the prompt is built and fetch() is called, or the
\* catch block answers.
AfterJson(i) ==
  /\ pc[i] = "json"
  /\ LET built == LinesOf(req[i].entry, req[i].body.json)
     IN  IF ~req[i].body.valid
           THEN /\ Return(i, Response400(req[i].entry, JsonSyntaxError))
                /\ UNCHANGED <<lines, calls>>
         ELSE IF built.threw
           THEN /\ Return(i, Response400(req[i].entry, built.message))
                /\ UNCHANGED <<lines, calls>>
         ELSE /\ lines' = [lines EXCEPT ![i] = built.value]
              /\ calls' = [calls EXCEPT ![i] =
                             Append(@, CallOf(req[i].entry, req[i].apiKey,
                                              UserMessage(built.value)))]
              /\ pc' = [pc EXCEPT ![i] = "fetch"]
              /\ UNCHANGED resp
  /\ UNCHANGED <<req, parsedIn, upstream, parsedUp>>

\* As AfterFetch, with one retry of the call when fetch() rejects.
AfterFetchRetry(i) ==
  /\ pc[i] = "fetch"
  /\ \E reply \in UpstreamReplies :
       /\ upstream' = [upstream EXCEPT ![i] = reply]
       /\ IF reply.kind = "reject" /\ Len(calls[i]) < 2
            THEN /\ calls' = [calls EXCEPT ![i] = Append(@, calls[i][1])]
                 /\ UNCHANGED <<pc, resp, parsedUp>>
          ELSE IF reply.kind = "reject"
            THEN /\ Return(i, Response400(req[i].entry, NetworkError))
                 /\ UNCHANGED <<parsedUp, calls>>
          ELSE IF ~Ok(reply)
            THEN /\ pc' = [pc EXCEPT ![i] = "text"]
                 /\ UNCHANGED <<resp, parsedUp, calls>>
          ELSE /\ pc' = [pc EXCEPT ![i] = "resjson"]
               /\ parsedUp' = [parsedUp EXCEPT ![i] = TRUE]
               /\ UNCHANGED <<resp, calls>>
  /\ UNCHANGED <<req, parsedIn, lines>>

\* fetch() settles: it rejects, or the response arrives and its body is read
\* as text (not ok) or as JSON (ok).
AfterFetch(i) ==
  /\ pc[i] = "fetch"
  /\ \E reply \in UpstreamReplies :
       /\ upstream' = [upstream EXCEPT ![i] = reply]
       /\ IF reply.kind = "reject"
            THEN /\ Return(i, Response400(req[i].entry, NetworkError))
                 /\ UNCHANGED parsedUp
          ELSE IF ~Ok(reply)
            THEN /\ pc' = [pc EXCEPT ![i] = "text"]
                 /\ UNCHANGED <<resp, parsedUp>>
          ELSE /\ pc' = [pc EXCEPT ![i] = "resjson"]
               /\ parsedUp' = [parsedUp EXCEPT ![i] = TRUE]
               /\ UNCHANGED resp
  /\ UNCHANGED <<req, parsedIn, lines, calls>>

\* As AfterText, with the request headers of the failed call added to the
\* error details.
AfterTextWithHeaders(i) ==
  /\ pc[i] = "text"
  /\ Return(i, Response500(req[i].entry,
                           upstream[i].text \o <<" Authorization: ">>
                             \o calls[i][1].authorization))
  /\ UNCHANGED <<req, parsedIn, lines, calls, upstream, parsedUp>>

\* openaiRes.text() settles.
AfterText(i) ==
  /\ pc[i] = "text"
  /\ Return(i, Response500(req[i].entry, upstream[i].text))
  /\ UNCHANGED <<req, parsedIn, lines, calls, upstream, parsedUp>>

\* openaiRes.json() settles.
AfterResJson(i) ==
  /\ pc[i] = "resjson"
  /\ LET got == ContentOf(req[i].entry, upstream[i].json)
     IN  IF ~upstream[i].valid
           THEN Return(i, Response400(req[i].entry, JsonSyntaxError))
         ELSE IF got.threw
           THEN Return(i, Response400(req[i].entry, got.message))
         ELSE Return(i, Response200(req[i].entry, got.value))
  /\ UNCHANGED <<req, parsedIn, lines, calls, upstream, parsedUp>>

Next ==
  \E i \in 1..NumRequests :
    \/ i \in Reqs /\ Enter(i)
    \/ i \in Reqs /\ AfterJson(i)
    \/ i \in Reqs /\ AfterFetch(i)
    \/ i \in Reqs /\ AfterText(i)
    \/ i \in Reqs /\ AfterResJson(i)

\* One request, any entry point, the core bodies, every upstream reply.
Init == InitOver({1}, RequestsOver(Entries, {"sk-A"}, CoreBodies))
Spec == Init /\ [][Next]_vars

\* Prompt construction alone: one POST request up to its outbound call.
InitPrompt ==
  InitOver({1}, {r \in RequestsOver(Entries, {"sk-A"}, PromptBodies) :
                   r.method = "POST"})
NextPrompt ==
  \E i \in 1..NumRequests :
    \/ i \in Reqs /\ Enter(i)
    \/ i \in Reqs /\ AfterJson(i)
SpecPrompt == InitPrompt /\ [][NextPrompt]_vars

\* Several requests handled concurrently; they differ in one respect only:
\* the entry point, the credential, or the body.
DifferInOne(f) ==
  \A i, j \in DOMAIN f :
    /\ f[i].method = f[j].method
    /\ \/ f[i].apiKey = f[j].apiKey /\ f[i].body = f[j].body
       \/ f[i].entry = f[j].entry /\ f[i].body = f[j].body
       \/ f[i].entry = f[j].entry /\ f[i].apiKey = f[j].apiKey
InitPairs ==
  /\ InitOver(1..NumRequests, PairRequests)
  /\ DifferInOne(req)
SpecPairs == InitPairs /\ [][Next]_vars

(***************************************************************************)
(* The properties.                                                         *)
(***************************************************************************)
Done(i) == pc[i] = "done"

\* The label table of the specification, in its fixed key order.
LabelTable ==
  << <<"name", "Name">>, <<"roast", "Roast profile">>, <<"origin", "Origin">>,
     <<"process", "Processing method">>, <<"varietal", "Varietal">>,
     <<"masl", "MASL">>, <<"roastDate", "Roast date">>,
     <<"brewProfile", "Brew profile">> >>

LabelPos(label) ==
  IF \E k \in 1..Len(LabelTable) : LabelTable[k][2] = label
    THEN CHOOSE k \in 1..Len(LabelTable) : LabelTable[k][2] = label
    ELSE 0

\* Absent, null, or a string that is empty after trimming.
Blank(x) == Nullish(x) \/ (x.t = "string" /\ Trim(x.v) = <<>>)

\* Prompt construction raises no exception: the body is not null and no
\* recognized key holds a truthy value whose conversion to a string throws.
Constructible(x) ==
  /\ ~Nullish(x)
  /\ \A k \in 1..Len(LabelTable) :
       LET val == Get(x, LabelTable[k][1])
       IN  ~(Truthy(val) /\ ToStringThrows(val))

\* The user message of the outbound call of request i.
SentUserMessage(i) == calls[i][1].body.messages[2].content

MethodNotAllowed ==
  [status |-> 405, contentType |-> "application/json",
   body |-> << <<"error", Str(<<"Method Not Allowed">>)>> >>]

C2_OnlyBlankOmitted ==
  \A i \in Reqs :
    pc[i] = "fetch" =>
      /\ \A k \in 1..Len(LabelTable) :
           LET val == Get(req[i].body.json, LabelTable[k][1])
               label == LabelTable[k][2]
               has == \E a \in 1..Len(lines[i]) : lines[i][a][1] = label
           IN  /\ ~has <=> Blank(val)
               /\ ~Blank(val) =>
                    \E a \in 1..Len(lines[i]) :
                      lines[i][a] = <<label, ": ">> \o ToString(val)
      /\ \A a \in 1..Len(lines[i]) : LabelPos(lines[i][a][1]) # 0

\* The transpositions of two pairs of an object, and its reversal.
Reorderings(x) ==
  IF x.t # "object" THEN {x}
  ELSE {Obj([k \in 1..Len(x.v) |->
               IF k = a THEN x.v[b] ELSE IF k = b THEN x.v[a] ELSE x.v[k]]) :
          a \in 1..Len(x.v), b \in 1..Len(x.v)}
       \cup {Obj(Reversed(x.v))}

\* C3: the lines of the user message follow the fixed key order, each
\* recognized key at most once, whatever the order of the keys of the inbound
\* object; the same pairs in another order (any transposition, the reversal;
\* the enumerated objects come in every order) give the same user message.
C3_FixedKeyOrder ==
  \A i \in Reqs :
    pc[i] = "fetch" =>
      /\ \A a \in 1..Len(lines[i]) : LabelPos(lines[i][a][1]) # 0
      /\ \A a, b \in 1..Len(lines[i]) :
           a < b => LabelPos(lines[i][a][1]) < LabelPos(lines[i][b][1])
      /\ SentUserMessage(i) = UserMessage(lines[i])
      /\ \A other \in Reorderings(req[i].body.json) :
           LET again == LinesOf(req[i].entry, other)
           IN  ~again.threw /\ UserMessage(again.value) = SentUserMessage(i)

C3_Witness ==
  \E i \in Reqs :
    /\ pc[i] = "fetch"
    /\ req[i].body.json = Obj(Reversed(AllEight))
    /\ Len(lines[i]) = 7
    /\ lines[i][1] = <<"Name", ": ", "Geisha">>
    /\ lines[i][7] = <<"Brew profile", ": ", "Bright">>

\* C4 as stated: a finished POST request whose body is valid JSON has made
\* exactly one outbound call.
C4_OneCallForValidJson ==
  \A i \in Reqs :
    /\ Len(calls[i]) <= 1
    /\ (Done(i) /\ req[i].method = "POST" /\ req[i].body.valid) =>
         Len(calls[i]) = 1

\* C4, amended: no request ever makes more than one outbound call; a POST
\* request whose body is valid JSON and whose prompt construction raises no
\* exception has made exactly one from the moment its body is parsed, and
\* when every recognized field is blank that call carries the empty string
\* as the user message.
C4_OneCallWhenPromptBuilt ==
  \A i \in Reqs :
    /\ Len(calls[i]) <= 1
    /\ ( /\ req[i].method = "POST" /\ req[i].body.valid
         /\ Constructible(req[i].body.json)
         /\ pc[i] \notin {"start", "json"} ) =>
         /\ Len(calls[i]) = 1
         /\ (\A k \in 1..Len(LabelTable) :
               Blank(Get(req[i].body.json, LabelTable[k][1]))) =>
              SentUserMessage(i) = <<>>

C4_Witness ==
  \E i \in Reqs :
    /\ req[i].method = "POST"
    /\ req[i].body = JsonBody(Obj(<< <<"name", Str(<<" ">>)>> >>))
    /\ Done(i) /\ upstream[i] = Rejected
    /\ Len(calls[i]) = 1 /\ SentUserMessage(i) = <<>>

\* C5: when the upstream replies with a non-success status, whatever it is,
\* the relay answers 500 {"error":"OpenAI API error","details":<the raw
\* body text>}, never parses the upstream body and makes no further call.
C5_UpstreamFailureIs500 ==
  \A i \in Reqs :
    (upstream[i].kind = "response" /\ upstream[i].status \notin 200..299) =>
      /\ ~parsedUp[i]
      /\ Len(calls[i]) = 1
      /\ pc[i] \in {"text", "done"}
      /\ Done(i) =>
           resp[i] = << [status |-> 500, contentType |-> "application/json",
                         body |-> << <<"error", Str(<<"OpenAI API error">>)>>,
                                     <<"details", Str(upstream[i].text)>> >>] >>

C5_Witness ==
  \E i \in Reqs :
    /\ Done(i) /\ upstream[i].status = 429
    /\ resp[i][1].status = 500
    /\ resp[i][1].body[2] = <<"details", Str(<<"rate limited">>)>>

\* choices[0].message.content of an upstream body, the empty string when a
\* part of the path is missing.
PathContent(result) ==
  LET content == OptGet(OptGet(OptIndex0(OptGet(result, "choices")), "message"),
                        "content")
  IN  IF Nullish(content) THEN Str(<<>>) ELSE content

\* C6: when the upstream replies with a success status and a JSON body, the
\* relay answers 200 {"html": c}, c being choices[0].message.content of that
\* body, verbatim, or the empty string when a part of the path is missing.
C6_SuccessGivesContent ==
  \A i \in Reqs :
    ( /\ Done(i) /\ upstream[i].kind = "response"
      /\ upstream[i].status \in 200..299 /\ upstream[i].valid ) =>
      resp[i] = << [status |-> 200, contentType |-> "application/json",
                    body |-> << <<"html", PathContent(upstream[i].json)>> >>] >>

\* A fault of the request itself: its body is not valid JSON, or prompt
\* construction raises an exception.
LocalFault(i) ==
  parsedIn[i] /\ (~req[i].body.valid \/ ~Constructible(req[i].body.json))

\* C7: a request ends with exactly one response, of status 405, 400, 500 or
\* 200; 400 "Invalid request" is returned exactly for a local fault and 500
\* "OpenAI API error" exactly for a non-success status of the upstream, so no
\* fault of the upstream exchange is reported as 400.
C7_FaultTaxonomy ==
  \A i \in Reqs :
    /\ Len(resp[i]) = (IF Done(i) THEN 1 ELSE 0)
    /\ Done(i) =>
         /\ resp[i][1].status \in {405, 400, 500, 200}
         /\ (resp[i][1].status = 400) <=> LocalFault(i)
         /\ (resp[i][1].status = 400) =>
              resp[i][1].body[1] = <<"error", Str(<<"Invalid request">>)>>
         /\ (resp[i][1].status = 500) <=>
              (upstream[i].kind = "response" /\ upstream[i].status \notin 200..299)
         /\ (resp[i][1].status = 500) =>
              resp[i][1].body[1] = <<"error", Str(<<"OpenAI API error">>)>>

\* Whether a JavaScript value holds the fragment in one of its strings.
RECURSIVE Mentions(_, _)
Mentions(x, fragment) ==
  CASE x.t = "string" -> \E k \in 1..Len(x.v) : x.v[k] = fragment
    [] x.t = "array" -> \E k \in 1..Len(x.v) : Mentions(x.v[k], fragment)
    [] x.t = "object" ->
         \E k \in 1..Len(x.v) :
           x.v[k][1] = fragment \/ Mentions(x.v[k][2], fragment)
    [] OTHER -> FALSE

ResponseMentions(r, fragment) ==
  \E k \in 1..Len(r.body) : Mentions(r.body[k][2], fragment)

UpstreamMentions(u, fragment) ==
  (\E k \in 1..Len(u.text) : u.text[k] = fragment) \/ Mentions(u.json, fragment)

\* C8: the credential goes into the Authorization header of the outbound
\* call and nowhere else: the payload does not hold it, a response holds it
\* only if the reply of the upstream does, and two requests that differ only
\* in the credential and get the same upstream reply get the same response.
C8_CredentialConfined ==
  /\ \A i \in Reqs :
       /\ \A c \in 1..Len(calls[i]) :
            /\ calls[i][c].authorization = <<"Bearer ", req[i].apiKey>>
            /\ calls[i][c].body.model # req[i].apiKey
            /\ \A m \in 1..Len(calls[i][c].body.messages) :
                 ~Mentions(Str(calls[i][c].body.messages[m].content), req[i].apiKey)
       /\ \A r \in 1..Len(resp[i]) :
            ResponseMentions(resp[i][r], req[i].apiKey) =>
              UpstreamMentions(upstream[i], req[i].apiKey)
  /\ \A i, j \in Reqs :
       ( /\ req[i].apiKey # req[j].apiKey
         /\ req[i].entry = req[j].entry /\ req[i].method = req[j].method
         /\ req[i].body = req[j].body
         /\ Done(i) /\ Done(j) /\ upstream[i] = upstream[j] ) =>
         resp[i] = resp[j]

C8_Witness ==
  \E i, j \in Reqs :
    /\ req[i].apiKey = "sk-A" /\ req[j].apiKey = "sk-B"
    /\ Done(i) /\ Done(j)
    /\ upstream[i].status = 401 /\ upstream[j] = upstream[i]
    /\ resp[i] = resp[j]
    /\ resp[i][1].status = 500
    /\ ResponseMentions(resp[i][1], "sk-A")
    /\ ~ResponseMentions(resp[j][1], "sk-B")

\* C9: whatever the interleaving of the requests in flight, requests with
\* the same body send the same outbound payload (model, system and user
\* message, temperature, max_tokens), and requests with the same entry point,
\* method, body and upstream reply get the same response.
C9_RequestsIndependent ==
  \A i, j \in Reqs :
    /\ (req[i].body = req[j].body /\ calls[i] # <<>> /\ calls[j] # <<>>) =>
         calls[i][1].body = calls[j][1].body
    /\ ( /\ req[i].entry = req[j].entry /\ req[i].method = req[j].method
         /\ req[i].body = req[j].body
         /\ Done(i) /\ Done(j) /\ upstream[i] = upstream[j] ) =>
         resp[i] = resp[j]

C9_Witness ==
  \E i, j \in Reqs :
    /\ i # j
    /\ req[i] = req[j]
    /\ Done(i) /\ resp[i][1].status = 200
    /\ pc[j] = "fetch"
    /\ SentUserMessage(j) = <<"Name", ": ", "Light">>
    /\ calls[i][1].body = calls[j][1].body

\* The upstream gave both requests the same reply, where both called it.
SameUpstream(i, j) ==
  (calls[i] # <<>> /\ calls[j] # <<>>) => upstream[i] = upstream[j]

\* C10 as stated: for any method and body, the three entry points make the
\* same outbound call (or none) and return the same status and body.
C10_AllEntriesAgree ==
  \A i, j \in Reqs :
    ( /\ req[i].method = req[j].method /\ req[i].body = req[j].body
      /\ req[i].apiKey = req[j].apiKey
      /\ Done(i) /\ Done(j) /\ SameUpstream(i, j) ) =>
      calls[i] = calls[j] /\ resp[i] = resp[j]

\* C10, amended: for a POST request the three entry points make the same
\* outbound call (or none) and return the same status and body; for another
\* method fetch and onRequest do (405, no call), and onRequestPost, which has
\* no method check, handles the request as it handles a POST.
C10_EntriesAgreeOnPost ==
  \A i, j \in Reqs :
    ( /\ req[i].method = req[j].method /\ req[i].body = req[j].body
      /\ req[i].apiKey = req[j].apiKey
      /\ Done(i) /\ Done(j) /\ SameUpstream(i, j) ) =>
      /\ ( \/ req[i].method = "POST"
           \/ {req[i].entry, req[j].entry} \subseteq {"fetch", "onRequest"} ) =>
           calls[i] = calls[j] /\ resp[i] = resp[j]
      /\ (req[i].method # "POST" /\ req[i].entry = "onRequestPost") =>
           /\ resp[i][1].status # 405
           /\ req[i].body.valid => Len(calls[i]) = 1

C10_Witness ==
  \E i, j \in Reqs :
    /\ req[i].entry = "fetch" /\ req[j].entry = "onRequestPost"
    /\ req[i].method = "POST" /\ req[j].method = "POST"
    /\ Done(i) /\ Done(j)
    /\ resp[i][1].status = 200 /\ resp[i] = resp[j] /\ calls[i] = calls[j]

====
